---- MODULE Spec2Model ----
(***************************************************************************)
(* The job processor of the UPR OS worker (processor.js) and the status    *)
(* endpoint of its server (server.js).  getStatus and the endpoint read    *)
(* the history and change nothing: they are operators on the state.        *)
(*                                                                         *)
(* jobHistory is the module-level Map: a sequence of records in insertion  *)
(* order.  A process() call is a coroutine of the single JavaScript        *)
(* thread: it runs without interruption up to an await, so every action    *)
(* below is one synchronous segment of the code, and segments of different *)
(* calls interleave freely.                                                *)
(*                                                                         *)
(* An absent object key / the value undefined is None (the empty tuple);   *)
(* a present value v is Some(v).                                           *)
(***************************************************************************)
EXTENDS Integers, Sequences, FiniteSets, TLC

\* ------------------------------------------------------------------ bounds
NumProcs == 2      \* process() calls that can be in flight together
NumSuffix == 2     \* distinct values of the random part of a job id
MaxClock == 2      \* Date.now() ranges over 1..MaxClock while the model runs
MaxJobs == 2       \* process() calls started in one behaviour
MaxLeads == 2      \* longest payload.leadIds

MAX_HISTORY == 100

None == <<>>
Some(v) == <<v>>
IsSome(o) == o # None
Val(o) == o[1]

Procs == 1..NumProcs
Suffixes == 1..NumSuffix

\* ------------------------------------------------------------- the inputs
BatchTypes == {"enrichment.batch", "scoring.batch"}
SingleTypes == {"enrichment.single", "pipeline.scheduled", "discovery.background"}
SyntheticTypes == {"signals.aggregate", "outreach.campaign", "cleanup.stale",
                   "export.generate", "analytics.aggregate"}
\* The own keys of this.handlers.
Registered == BatchTypes \cup SingleTypes \cup SyntheticTypes
\* Types that are not own keys of this.handlers: one that no object has, and
\* two that every object inherits from Object.prototype.
Unregistered == {"bogus.type", "constructor", "__proto__"}
JobTypes == Registered \cup Unregistered

Leads == {"L1", "L2"}
LeadLists == UNION {[1..n -> Leads] : n \in 0..MaxLeads}
Payloads == {[tenantId |-> "T1", leadIds |-> None]}
            \cup {[tenantId |-> "T1", leadIds |-> Some(l)] : l \in LeadLists}
\* The jobs enumerated: every type; lead id lists only where they are read.
JobInputs == {j \in [type : JobTypes, payload : Payloads] :
                j.type \notin BatchTypes => j.payload.leadIds = None}

\* What a downstream call (axios.post) can answer.
ResponseData == {[body |-> "d1", score |-> 1]}
ErrorMessages == {"Request failed with status code 500"}
DownstreamAnswers == {[ok |-> TRUE, data |-> d] : d \in ResponseData}
                     \cup {[ok |-> FALSE, message |-> m] : m \in ErrorMessages}

\* ------------------------------------------------- jobHistory, a JS Map
\* The keys of the Map; s is h, evaluated once.
Keys(h) == UNION {{s[i].id : i \in 1..Len(s)} : s \in {h}}
Has(h, id) == id \in Keys(h)
IndexOf(h, id) == CHOOSE i \in 1..Len(h) : h[i].id = id
\* Map.prototype.get: the value, or undefined.
MapGet(h, id) == IF Has(h, id) THEN Some(h[IndexOf(h, id)]) ELSE None
\* A set that deletes the key first, so that an updated key goes last.
MapSetMovesToEnd(h, id, data) == Append(SelectSeq(h, LAMBDA r : r.id # id), data)
\* Map.prototype.set: an existing key keeps its place, a new key goes last.
MapSet(h, id, data) ==
  IF Has(h, id) THEN [h EXCEPT ![IndexOf(h, id)] = data] ELSE Append(h, data)
\* Map.prototype.delete.
MapDelete(h, id) == SelectSeq(h, LAMBDA r : r.id # id)
\* The key inserted last, taken for the oldest.
NewestKey(h) == h[Len(h)].id
\* jobHistory.keys().next().value
OldestKey(h) == h[1].id

\* recordJob trimming one record too late.
recordJobTrimsLate(h, id, data) ==
  LET h1 == MapSet(h, id, data)
  IN IF Len(h1) > MAX_HISTORY + 1 THEN MapDelete(h1, OldestKey(h1)) ELSE h1

recordJob(h, id, data) ==
  LET h1 == MapSet(h, id, data)
  IN IF Len(h1) > MAX_HISTORY THEN MapDelete(h1, OldestKey(h1)) ELSE h1

\* The ids a recordJob call removes from the history.
EvictedBy(h, id, data) == Keys(MapSet(h, id, data)) \ Keys(recordJob(h, id, data))

\* ------------------------------------------------------------ the records
JobId(t, r) == <<t, r>>

ProcessingRecord(id, j, t) ==
  [id |-> id, type |-> j.type, status |-> "processing", startedAt |-> Some(t),
   payload |-> Some(j.payload), completedAt |-> None, failedAt |-> None,
   duration |-> None, result |-> None, error |-> None]

\* jobHistory.get(jobId)?.startedAt
StartedAtOf(h, id) == IF Has(h, id) THEN Val(MapGet(h, id)).startedAt ELSE None

\* A 'completed' record written without the handler's value.
CompletedRecordWithoutResult(h, id, type, t, duration, result) ==
  [id |-> id, type |-> type, status |-> "completed", startedAt |-> StartedAtOf(h, id),
   payload |-> None, completedAt |-> Some(t), failedAt |-> None,
   duration |-> Some(duration), result |-> None, error |-> None]

\* A 'completed' record that keeps the status of the record it replaces.
CompletedRecordKeepsStatus(h, id, type, t, duration, result) ==
  [id |-> id, type |-> type, status |-> "processing", startedAt |-> StartedAtOf(h, id),
   payload |-> None, completedAt |-> Some(t), failedAt |-> None,
   duration |-> Some(duration), result |-> Some(result), error |-> None]

CompletedRecord(h, id, type, t, duration, result) ==
  [id |-> id, type |-> type, status |-> "completed", startedAt |-> StartedAtOf(h, id),
   payload |-> None, completedAt |-> Some(t), failedAt |-> None,
   duration |-> Some(duration), result |-> Some(result), error |-> None]

\* A 'failed' record stamped in the field of the success branch.
FailedRecordStampsCompletedAt(h, id, type, t, duration, message) ==
  [id |-> id, type |-> type, status |-> "failed", startedAt |-> StartedAtOf(h, id),
   payload |-> None, completedAt |-> Some(t), failedAt |-> None,
   duration |-> Some(duration), result |-> None, error |-> Some(message)]

FailedRecord(h, id, type, t, duration, message) ==
  [id |-> id, type |-> type, status |-> "failed", startedAt |-> StartedAtOf(h, id),
   payload |-> None, completedAt |-> None, failedAt |-> Some(t),
   duration |-> Some(duration), result |-> None, error |-> Some(message)]

\* ------------------------------------------------------------ the handlers
\* this.handlers[job.type]: a property lookup on a plain object, which finds
\* the own keys and, for a key it does not own, what Object.prototype holds.
handlers(type) ==
  CASE type \in Registered -> "bound handler"
    [] type = "constructor" -> "Object"
    [] type = "__proto__"   -> "Object.prototype"
    [] OTHER                -> "undefined"

\* The Math.random() draws one call of a synthetic handler makes.
DrawValues == {0, 1}
NumDraws(type) ==
  CASE type = "signals.aggregate"   -> 1
    [] type = "outreach.campaign"   -> 0
    [] type = "cleanup.stale"       -> 2
    [] type = "export.generate"     -> 1
    [] type = "analytics.aggregate" -> 4
    [] OTHER                        -> 0
DrawsOf(type) == [1..NumDraws(type) -> DrawValues]

\* The five handlers that call nothing downstream; t is the clock they read.
SyntheticResult(type, payload, t, d) ==
  CASE type = "signals.aggregate" ->
         [tenantId |-> payload.tenantId, aggregatedAt |-> t,
          signalsProcessed |-> d[1] + 100]
    [] type = "outreach.campaign" ->
         [recipientsProcessed |-> 0, status |-> "queued",
          estimatedDelivery |-> t + 3600000]
    [] type = "cleanup.stale" ->
         [cleanedAt |-> t, recordsRemoved |-> d[1], storageReclaimed |-> d[2]]
    [] type = "export.generate" ->
         [exportId |-> t, status |-> "generating", estimatedRows |-> d[1] + 100]
    [] type = "analytics.aggregate" ->
         [aggregatedAt |-> t,
          metrics |-> [leadsDiscovered |-> d[1] + 50, leadsEnriched |-> d[2] + 40,
                       leadsScored |-> d[3] + 30, outreachSent |-> d[4] + 20]]

\* (leadIds || [])
LeadIdsOf(payload) == IF IsSome(payload.leadIds) THEN Val(payload.leadIds) ELSE <<>>

\* Both batch handlers labelling a success 'enriched'.
BatchEntryLabelsEnriched(type, leadId, a) ==
  IF ~a.ok THEN [leadId |-> leadId, status |-> "failed", error |-> a.message]
  ELSE [leadId |-> leadId, status |-> "enriched", data |-> a.data]

\* One pass of a batch handler's loop body, after the downstream call for
\* leadId was answered with a.
BatchEntry(type, leadId, a) ==
  IF ~a.ok THEN [leadId |-> leadId, status |-> "failed", error |-> a.message]
  ELSE IF type = "enrichment.batch"
       THEN [leadId |-> leadId, status |-> "enriched", data |-> a.data]
       ELSE [leadId |-> leadId, status |-> "scored", score |-> a.data.score]

\* processed counting only the items that succeeded.
BatchResultCountsSuccesses(rs) ==
  [processed |-> Len(SelectSeq(rs, LAMBDA e : e.status # "failed")), results |-> rs]

BatchResult(rs) == [processed |-> Len(rs), results |-> rs]

\* A downstream call answered: the body axios.post sent and the answer a.
Call(payload, leadId, a) ==
  [tenantId |-> payload.tenantId, leadId |-> leadId, answer |-> a]

Fulfilled(v) == Some([ok |-> TRUE, value |-> Some(v), message |-> None])
Rejected(m) == Some([ok |-> FALSE, value |-> None, message |-> Some(m)])

\* ---------------------------------------------------------------- state
VARIABLES
  jobHistory,  \* the Map of processor.js, in insertion order
  now,         \* the clock: Date.now(), new Date()
  pc,          \* where each process() call stands
  job,         \* its argument
  jobId,       \* its jobId
  startTime,   \* its startTime
  results,     \* the results array of its batch handler
  outcome,     \* how its handler's promise settled
  ret,         \* what it returned or raised to its caller
  calls,       \* history: the downstream calls of its handler answered so far
  response,    \* the status POST /pubsub/push answered last on this slot; 0: none
  pending,     \* the message of this slot that Pub/Sub is to deliver again
  evicted,     \* history: the ids recordJob has removed
  dispatched   \* history: the number of process() calls started

vars == <<jobHistory, now, pc, job, jobId, startTime, results, outcome, ret,
          calls, response, pending, evicted, dispatched>>

\* ------------------------------------------------------ the initial states
\* The history after construction is empty.  The other initial states are
\* states the worker is in after earlier jobs: MAX_HISTORY - 1 or MAX_HISTORY
\* jobs that ran one per millisecond up to time 0 and completed, and, before
\* them, one enrichment.single job whose downstream call has not answered.
PriorJob == [type |-> "outreach.campaign",
             payload |-> [tenantId |-> "T1", leadIds |-> None]]
PriorRecord(i) ==
  LET t == i - MAX_HISTORY
      id == JobId(t, 1)
      h == recordJob(<<>>, id, ProcessingRecord(id, PriorJob, t))
  IN CompletedRecord(h, id, PriorJob.type, t, 0,
                     SyntheticResult(PriorJob.type, PriorJob.payload, t, <<>>))
PriorHistory(k) == [i \in 1..k |-> PriorRecord(MAX_HISTORY - k + i)]

HeadJob == [type |-> "enrichment.single",
            payload |-> [tenantId |-> "T1", leadIds |-> None]]
HeadTime == 0 - MAX_HISTORY
HeadId == JobId(HeadTime, 1)

Warmups == {<<0, FALSE>>, <<MAX_HISTORY - 1, FALSE>>, <<MAX_HISTORY, FALSE>>,
            <<MAX_HISTORY - 1, TRUE>>}

\* started: the number of process() calls counted as started so far, the one
\* in flight included.
InitWith(started) ==
  \E w \in Warmups :
    LET k == w[1]
        inflight == w[2]
    IN /\ jobHistory =
            (IF inflight THEN <<ProcessingRecord(HeadId, HeadJob, HeadTime)>> ELSE <<>>)
            \o PriorHistory(k)
       /\ now = 1
       /\ pc = [p \in Procs |-> IF inflight /\ p = 1 THEN "awaiting" ELSE "idle"]
       /\ job = [p \in Procs |-> IF inflight /\ p = 1 THEN Some(HeadJob) ELSE None]
       /\ jobId = [p \in Procs |-> IF inflight /\ p = 1 THEN Some(HeadId) ELSE None]
       /\ startTime = [p \in Procs |-> IF inflight /\ p = 1 THEN Some(HeadTime) ELSE None]
       /\ results = [p \in Procs |-> <<>>]
       /\ outcome = [p \in Procs |-> None]
       /\ ret = [p \in Procs |-> None]
       /\ calls = [p \in Procs |-> <<>>]
       /\ response = [p \in Procs |-> 0]
       /\ pending = [p \in Procs |-> None]
       /\ evicted = {}
       /\ dispatched = IF inflight /\ started = 0 THEN 1 ELSE started

Init == InitWith(0)
\* The states from which one more call is started.
InitLast == InitWith(MaxJobs - 1)

\* ----------------------------------------------------------- process(job)
Returned(id, duration, result) ==
  Some([kind |-> "returned", jobId |-> id, status |-> "completed",
        duration |-> duration, result |-> Some(result), message |-> None])
Raised(m) ==
  Some([kind |-> "raised", jobId |-> None, status |-> "", duration |-> 0,
        result |-> None, message |-> Some(m)])

\* A catch block that throws without recording the failure.
CatchWithoutRecord(p, h, ev, m) ==
  /\ jobHistory' = h
  /\ evicted' = evicted \cup ev
  /\ ret' = [ret EXCEPT ![p] = Raised(m)]
  /\ pc' = [pc EXCEPT ![p] = "raised"]

\* The catch block of process(): record the failure, then throw error.
Catch(p, h, ev, m) ==
  LET id == Val(jobId'[p])
      rec == FailedRecord(h, id, Val(job'[p]).type, now, now - Val(startTime'[p]), m)
  IN /\ jobHistory' = recordJob(h, id, rec)
     /\ evicted' = evicted \cup ev \cup EvictedBy(h, id, rec)
     /\ ret' = [ret EXCEPT ![p] = Raised(m)]
     /\ pc' = [pc EXCEPT ![p] = "raised"]

\* process() from its first line to the await of the handler's promise, or,
\* when the handler lookup or call throws, to the end of the catch block.
Start(p, j, r) ==
  /\ pc[p] = "idle"
  /\ dispatched < MaxJobs
  /\ dispatched' = dispatched + 1
  /\ job' = [job EXCEPT ![p] = Some(j)]
  /\ jobId' = [jobId EXCEPT ![p] = Some(JobId(now, r))]
  /\ startTime' = [startTime EXCEPT ![p] = Some(now)]
  /\ results' = [results EXCEPT ![p] = <<>>]
  /\ calls' = [calls EXCEPT ![p] = <<>>]
  /\ UNCHANGED now
  /\ LET id == JobId(now, r)
         rec == ProcessingRecord(id, j, now)
         h1 == recordJob(jobHistory, id, rec)
         ev1 == EvictedBy(jobHistory, id, rec)
         Await(o) == /\ jobHistory' = h1
                     /\ evicted' = evicted \cup ev1
                     /\ outcome' = [outcome EXCEPT ![p] = o]
                     /\ pc' = [pc EXCEPT ![p] = IF o = None THEN "awaiting" ELSE "settled"]
                     /\ UNCHANGED ret
     IN \/ /\ handlers(j.type) = "undefined"
           /\ Catch(p, h1, ev1, "Unknown job type: " \o j.type)
           /\ UNCHANGED outcome
        \/ /\ handlers(j.type) = "Object.prototype"
           /\ Catch(p, h1, ev1, "handler is not a function")
           /\ UNCHANGED outcome
        \/ /\ handlers(j.type) = "Object"
           /\ Await(Fulfilled(j.payload))
        \/ /\ handlers(j.type) = "bound handler"
           /\ j.type \in SyntheticTypes
           /\ \E d \in DrawsOf(j.type) :
                Await(Fulfilled(SyntheticResult(j.type, j.payload, now, d)))
        \/ /\ handlers(j.type) = "bound handler"
           /\ j.type \in BatchTypes
           /\ LeadIdsOf(j.payload) = <<>>
           /\ Await(Fulfilled(BatchResult(<<>>)))
        \/ /\ handlers(j.type) = "bound handler"
           /\ j.type \in BatchTypes
           /\ LeadIdsOf(j.payload) # <<>>
           /\ Await(None)
        \/ /\ handlers(j.type) = "bound handler"
           /\ j.type \in SingleTypes
           /\ Await(None)

\* A batch handler that calls again for a lead whose call failed.
AnswerRetriesFailedItem(p, a) ==
  /\ pc[p] = "awaiting"
  /\ UNCHANGED <<jobHistory, now, job, jobId, startTime, ret, response, pending,
                 evicted, dispatched>>
  /\ LET j == Val(job[p])
         leadIds == LeadIdsOf(j.payload)
     IN \/ /\ j.type \in SingleTypes
           /\ calls' = [calls EXCEPT ![p] = Append(@, Call(j.payload, None, a))]
           /\ outcome' = [outcome EXCEPT ![p] =
                            IF a.ok THEN Fulfilled(a.data) ELSE Rejected(a.message)]
           /\ pc' = [pc EXCEPT ![p] = "settled"]
           /\ UNCHANGED results
        \/ /\ j.type \in BatchTypes
           /\ LET leadId == leadIds[Len(results[p]) + 1]
                  rs == IF a.ok THEN Append(results[p], BatchEntry(j.type, leadId, a))
                        ELSE results[p]
              IN /\ results' = [results EXCEPT ![p] = rs]
                 /\ calls' = [calls EXCEPT ![p] = Append(@, Call(j.payload, Some(leadId), a))]
                 /\ IF Len(rs) = Len(leadIds)
                    THEN /\ outcome' = [outcome EXCEPT ![p] = Fulfilled(BatchResult(rs))]
                         /\ pc' = [pc EXCEPT ![p] = "settled"]
                    ELSE UNCHANGED <<outcome, pc>>

\* The downstream call a handler awaits is answered with a.
Answer(p, a) ==
  /\ pc[p] = "awaiting"
  /\ UNCHANGED <<jobHistory, now, job, jobId, startTime, ret, response, pending,
                 evicted, dispatched>>
  /\ LET j == Val(job[p])
         leadIds == LeadIdsOf(j.payload)
     IN \/ /\ j.type \in SingleTypes
           /\ calls' = [calls EXCEPT ![p] = Append(@, Call(j.payload, None, a))]
           /\ outcome' = [outcome EXCEPT ![p] =
                            IF a.ok THEN Fulfilled(a.data) ELSE Rejected(a.message)]
           /\ pc' = [pc EXCEPT ![p] = "settled"]
           /\ UNCHANGED results
        \/ /\ j.type \in BatchTypes
           /\ LET leadId == leadIds[Len(results[p]) + 1]
                  rs == Append(results[p], BatchEntry(j.type, leadId, a))
              IN /\ results' = [results EXCEPT ![p] = rs]
                 /\ calls' = [calls EXCEPT ![p] = Append(@, Call(j.payload, Some(leadId), a))]
                 /\ IF Len(rs) = Len(leadIds)
                    THEN /\ outcome' = [outcome EXCEPT ![p] = Fulfilled(BatchResult(rs))]
                         /\ pc' = [pc EXCEPT ![p] = "settled"]
                    ELSE UNCHANGED <<outcome, pc>>

\* process() returning or throwing without the terminal write.
ResumeWithoutWrite(p) ==
  /\ pc[p] = "settled"
  /\ UNCHANGED <<jobHistory, evicted, now, job, jobId, startTime, results, outcome,
                 calls, dispatched>>
  /\ LET o == Val(outcome[p])
     IN IF o.ok
        THEN /\ ret' = [ret EXCEPT ![p] =
                          Returned(Val(jobId[p]), now - Val(startTime[p]), Val(o.value))]
             /\ pc' = [pc EXCEPT ![p] = "returned"]
        ELSE /\ ret' = [ret EXCEPT ![p] = Raised(Val(o.message))]
             /\ pc' = [pc EXCEPT ![p] = "raised"]

\* process() from the await of the handler's promise to its return or throw.
Resume(p) ==
  /\ pc[p] = "settled"
  /\ UNCHANGED <<now, job, jobId, startTime, results, outcome, calls, dispatched>>
  /\ LET id == Val(jobId[p])
         o == Val(outcome[p])
         duration == now - Val(startTime[p])
         rec == CompletedRecord(jobHistory, id, Val(job[p]).type, now, duration,
                                Val(o.value))
     IN \/ /\ o.ok
           /\ jobHistory' = recordJob(jobHistory, id, rec)
           /\ evicted' = evicted \cup EvictedBy(jobHistory, id, rec)
           /\ ret' = [ret EXCEPT ![p] = Returned(id, duration, Val(o.value))]
           /\ pc' = [pc EXCEPT ![p] = "returned"]
        \/ /\ ~o.ok
           /\ Catch(p, jobHistory, {}, Val(o.message))

\* The caller has taken the result of the call; the slot takes another call.
Finish(p) ==
  /\ pc[p] \in {"returned", "raised"}
  /\ pc' = [pc EXCEPT ![p] = "idle"]
  /\ job' = [job EXCEPT ![p] = None]
  /\ jobId' = [jobId EXCEPT ![p] = None]
  /\ startTime' = [startTime EXCEPT ![p] = None]
  /\ results' = [results EXCEPT ![p] = <<>>]
  /\ outcome' = [outcome EXCEPT ![p] = None]
  /\ ret' = [ret EXCEPT ![p] = None]
  /\ calls' = [calls EXCEPT ![p] = <<>>]
  /\ UNCHANGED <<jobHistory, now, response, pending, evicted, dispatched>>

\* A millisecond passes.
Tick ==
  /\ now < MaxClock
  /\ now' = now + 1
  /\ UNCHANGED <<jobHistory, pc, job, jobId, startTime, results, outcome, ret,
                 calls, response, pending, evicted, dispatched>>

\* ------------------------------------------------------ getStatus(jobId)
\* The record, or the throw of Error('Job not found').
getStatus(h, id) ==
  IF MapGet(h, id) = None
  THEN [threw |-> TRUE, job |-> None]
  ELSE [threw |-> FALSE, job |-> MapGet(h, id)]

\* GET /jobs/status/:jobId
StatusEndpoint(h, id) ==
  LET s == getStatus(h, id)
  IN IF s.threw THEN [jobId |-> id, code |-> 404, body |-> None]
     ELSE [jobId |-> id, code |-> 200, body |-> s.job]

\* ------------------------------------------------- getRecentJobs(limit)
\* (a, b) => new Date(b.startedAt) - new Date(a.startedAt): the difference of
\* the two times, or NaN when either startedAt is undefined, which sort reads
\* as 0.
compareFn(a, b) ==
  IF IsSome(a.startedAt) /\ IsSome(b.startedAt)
  THEN Val(b.startedAt) - Val(a.startedAt)
  ELSE 0

\* compareFn orders the records of h consistently unless a record without
\* startedAt, equal to every record, stands beside two records it tells apart.
ConsistentOn(h) ==
  \/ \A i \in 1..Len(h) : IsSome(h[i].startedAt)
  \/ \A i, j \in 1..Len(h) : compareFn(h[i], h[j]) = 0

\* slice(0, limit) of an array of n elements ends before this index.
SliceEnd(n, limit) ==
  IF limit < 0 THEN (IF n + limit > 0 THEN n + limit ELSE 0)
  ELSE (IF limit < n THEN limit ELSE n)

Without(h, i) == SubSeq(h, 1, i - 1) \o SubSeq(h, i + 1, Len(h))

\* The first k elements of h sorted by compareFn.  The sort is stable: of the
\* records compareFn puts first, the one inserted earliest comes first.
\* The index, from lo to hi, of the record compareFn puts first; of several,
\* the lowest.
RECURSIVE Leader(_, _, _)
Leader(h, lo, hi) ==
  IF lo = hi THEN lo
  ELSE LET mid == (lo + hi) \div 2
           a == Leader(h, lo, mid)
           b == Leader(h, mid + 1, hi)
       IN IF compareFn(h[a], h[b]) > 0 THEN b ELSE a

RECURSIVE SortedPrefix(_, _)
SortedPrefix(h, k) ==
  IF k = 0 \/ h = <<>> THEN <<>>
  ELSE LET i == Leader(h, 1, Len(h))
       IN <<h[i]>> \o SortedPrefix(Without(h, i), k - 1)

\* The arrays of k of the records of h, in any order.
Arrangements(h, k) ==
  {[i \in 1..k |-> h[f[i]]] :
     f \in {g \in [1..k -> 1..Len(h)] : \A i, j \in 1..k : i # j => g[i] # g[j]}}

\* The arrays getRecentJobs(limit) can return on the history h.  Where
\* compareFn is not consistent the order sort leaves is up to the engine.
getRecentJobs(h, limit) ==
  IF ConsistentOn(h)
  THEN {SortedPrefix(h, SliceEnd(Len(h), limit))}
  ELSE Arrangements(h, SliceEnd(Len(h), limit))

\* parseInt(req.query.limit) of the query strings below; None is NaN.
QueryLimits == {None, Some("3"), Some("0"), Some("-1"), Some("2x"), Some("abc")}
parseInt(q) ==
  CASE q = Some("3")  -> Some(3)
    [] q = Some("0")  -> Some(0)
    [] q = Some("-1") -> Some(0 - 1)
    [] q = Some("2x") -> Some(2)
    [] OTHER          -> None

\* GET /jobs/recent: parseInt(req.query.limit) || 10
RecentEndpoint(h, q) ==
  LET n == parseInt(q)
      limit == IF n = None \/ n = Some(0) THEN 10 ELSE Val(n)
  IN [code |-> 200, jobs |-> getRecentJobs(h, limit)]

\* The jobs of the specification with several calls in flight: one job of each
\* way through process().
ConcurrentInputs ==
  {j \in JobInputs : j.type \in {"enrichment.single", "outreach.campaign", "bogus.type"}}
  \cup {j \in JobInputs : /\ j.type = "enrichment.batch"
                          /\ j.payload.leadIds = Some(<<"L1", "L2">>)}

\* POST /jobs/trigger: process() is called with the job of the request and
\* awaited.
Trigger(p, j, r) == Start(p, j, r) /\ UNCHANGED <<response, pending>>
Settle(p) == Resume(p) /\ UNCHANGED <<response, pending>>

Step(J) ==
  \/ \E p \in Procs, j \in J, r \in Suffixes : Trigger(p, j, r)
  \/ \E p \in Procs, a \in DownstreamAnswers : Answer(p, a)
  \/ \E p \in Procs : Settle(p)
  \/ \E p \in Procs : Finish(p)
  \/ Tick

Next == Step(ConcurrentInputs)
NextEveryJob == Step(JobInputs)

\* Calls in flight together, the jobs drawn from ConcurrentInputs.
Spec == Init /\ [][Next]_vars
\* Every job of JobInputs, as the last call of a behaviour.
SpecEveryJob == InitLast /\ [][NextEveryJob]_vars

\* Every downstream call is answered in the end, with success or failure, and
\* the event loop runs every continuation that is ready.
Answered ==
  \A p \in Procs : /\ WF_vars(\E a \in DownstreamAnswers : Answer(p, a))
                    /\ WF_vars(Settle(p))
\* SpecEveryJob with every downstream call answered.
SpecAnswered == InitLast /\ [][NextEveryJob]_vars /\ Answered

\* ------------------------------------------------------ POST /pubsub/push
\* The jobs Pub/Sub delivers: one whose downstream call may fail and one of an
\* unregistered type.
PushInputs == {j \in JobInputs : j.type \in {"enrichment.single", "bogus.type"}}

\* message.data: the base64 of the JSON text of a job, or of a text that is
\* not JSON.
Encoded(j) == [json |-> TRUE, value |-> j]
NotJson == [json |-> FALSE]
\* JSON.parse(Buffer.from(message.data, 'base64').toString()): the job, or
\* None for the SyntaxError thrown.
Decode(d) == IF d.json THEN Some(d.value) ELSE None

\* req.body.message: absent, without data, or with data.
Messages ==
  {None, Some([data |-> None]), Some([data |-> Some(NotJson)])}
  \cup {Some([data |-> Some(Encoded(j))]) : j \in PushInputs}

\* !message || !message.data
Invalid(m) == IF m = None THEN TRUE ELSE Val(m).data = None

\* res.status(400) for a body without message or data; process() is not
\* called.
PushInvalid(p, m) ==
  /\ pc[p] = "idle" /\ pending[p] = None
  /\ Invalid(m)
  /\ response' = [response EXCEPT ![p] = 400]
  /\ UNCHANGED <<jobHistory, now, pc, job, jobId, startTime, results, outcome, ret,
                 calls, pending, evicted, dispatched>>

\* JSON.parse throws and the catch block answers 500; process() is not called.
PushUnparsable(p, m) ==
  /\ pc[p] = "idle" /\ pending[p] = None
  /\ ~Invalid(m) /\ Decode(Val(Val(m).data)) = None
  /\ response' = [response EXCEPT ![p] = 500]
  /\ UNCHANGED <<jobHistory, now, pc, job, jobId, startTime, results, outcome, ret,
                 calls, pending, evicted, dispatched>>

\* The endpoint after await processor.process(data): 200 when it returned,
\* 500 from the catch block when it threw, after which Pub/Sub delivers the
\* message again; nothing yet while the call is in flight.
Responded(p) ==
  /\ response' = [response EXCEPT ![p] =
                    CASE pc'[p] = "returned" -> 200
                      [] pc'[p] = "raised"   -> 500
                      [] OTHER               -> 0]
  /\ pending' = [pending EXCEPT ![p] =
                   CASE pc'[p] = "returned" -> None
                     [] pc'[p] = "raised"   ->
                          Some([job |-> Val(job'[p]), failed |-> Val(jobId'[p])])
                     [] OTHER               -> @]

\* A message is delivered for the first time.
Deliver(p, m, r) ==
  /\ pending[p] = None
  /\ ~Invalid(m) /\ Decode(Val(Val(m).data)) # None
  /\ Start(p, Val(Decode(Val(Val(m).data))), r)
  /\ Responded(p)

\* The message answered with 500 is delivered again.
Redeliver(p, r) ==
  /\ pending[p] # None
  /\ Start(p, Val(pending[p]).job, r)
  /\ Responded(p)

PushSettle(p) == Resume(p) /\ Responded(p)

NextPush ==
  \/ \E p \in Procs, m \in Messages : PushInvalid(p, m)
  \/ \E p \in Procs, m \in Messages : PushUnparsable(p, m)
  \/ \E p \in Procs, m \in Messages, r \in Suffixes : Deliver(p, m, r)
  \/ \E p \in Procs, r \in Suffixes : Redeliver(p, r)
  \/ \E p \in Procs, a \in DownstreamAnswers : Answer(p, a)
  \/ \E p \in Procs : PushSettle(p)
  \/ \E p \in Procs : Finish(p)
  \/ Tick

\* The calls of process() made by the push endpoint.
SpecPush == Init /\ [][NextPush]_vars

\* ------------------------------------------------------------ the claims
Terminal == {"completed", "failed"}
Ids(h) == [i \in 1..Len(h) |-> h[i].id]
StatusOf(h, id) == Val(MapGet(h, id)).status
\* The call p runs a segment of process() in this step, which writes the
\* record of its job id.
Writes(p) == pc'[p] # pc[p] /\ pc[p] \in {"idle", "settled"}

\* C1: in every reachable state, with any number of process() calls in
\* flight, the history holds at most MAX_HISTORY records.
HistoryBounded == Len(jobHistory) <= MAX_HISTORY
\* A full history from which a call in flight has already evicted a record.
HistoryBoundedWitness ==
  /\ Len(jobHistory) = MAX_HISTORY
  /\ evicted # {}
  /\ \E p \in Procs : pc[p] = "awaiting"

\* C2: the status of the record of an id changes only from 'processing' to
\* 'completed' or 'failed'; a terminal record never changes status again.
StatusOnlyAdvances ==
  [][\A id \in Keys(jobHistory) \cap Keys(jobHistory') :
       \/ StatusOf(jobHistory', id) = StatusOf(jobHistory, id)
       \/ /\ StatusOf(jobHistory, id) = "processing"
          /\ StatusOf(jobHistory', id) \in Terminal]_vars

\* C3: in the step in which a process() call returns or raises, the terminal
\* record of its id is in the history ('completed' if it returned, 'failed' if
\* it raised) and getStatus of that id returns it; the step comes after the
\* handler settled, or after the handler lookup or call threw.
WriteBeforeReturn ==
  [][\A p \in Procs :
       (pc[p] \notin {"returned", "raised"} /\ pc'[p] \in {"returned", "raised"}) =>
         LET id == Val(jobId'[p])
             s == getStatus(jobHistory', id)
             r == Val(s.job)
         IN /\ ~s.threw
            /\ StatusEndpoint(jobHistory', id).code = 200
            /\ pc'[p] = "returned" =>
                 /\ pc[p] = "settled" /\ Val(outcome[p]).ok
                 /\ r.status = "completed"
                 /\ r.result = Val(ret'[p]).result
            /\ pc'[p] = "raised" =>
                 /\ pc[p] = "settled" => ~Val(outcome[p]).ok
                 /\ pc[p] # "settled" => pc[p] = "idle" /\ outcome'[p] = None
                 /\ r.status = "failed"
                 /\ r.error = Val(ret'[p]).message]_vars
\* A call has returned and another has raised, each with its record written.
WriteBeforeReturnWitness ==
  \E p, q \in Procs :
    /\ pc[p] = "returned" /\ pc[q] = "raised"
    /\ StatusOf(jobHistory, Val(jobId[p])) = "completed"
    /\ StatusOf(jobHistory, Val(jobId[q])) = "failed"

\* C4: when the handler raised, process() writes a 'failed' record with
\* failedAt, a duration and the failure's message as error, and raises that
\* failure; it never returns normally.
FailureRecordedThenRaised ==
  [][\A p \in Procs :
       (pc[p] = "settled" /\ ~Val(outcome[p]).ok /\ pc'[p] # pc[p]) =>
         LET m == Val(outcome[p]).message
             g == MapGet(jobHistory', Val(jobId[p]))
         IN /\ pc'[p] = "raised"
            /\ ret'[p] = Raised(Val(m))
            /\ g # None
            /\ Val(g).status = "failed"
            /\ Val(g).failedAt = Some(now)
            /\ Val(g).duration = Some(now - Val(startTime[p]))
            /\ Val(g).error = m]_vars
\* The downstream call of a pipeline.scheduled job failed and the call raised.
FailureRecordedThenRaisedWitness ==
  \E p \in Procs :
    /\ pc[p] = "raised"
    /\ Val(job[p]).type = "pipeline.scheduled"
    /\ outcome[p] = Rejected("Request failed with status code 500")
    /\ StatusOf(jobHistory, Val(jobId[p])) = "failed"

\* C5: a job whose type is not one of the ten registered types has no handler
\* invoked and fails with the unknown-job-type error.
UnregisteredTypeFails ==
  \A p \in Procs :
    (IsSome(job[p]) /\ Val(job[p]).type \notin Registered) =>
      /\ pc[p] = "raised"
      /\ outcome[p] = None
      /\ ret[p] = Raised("Unknown job type: " \o Val(job[p]).type)

\* C6: when the handler returned normally, the record getStatus reads right
\* after process() returns is 'completed' with completedAt, a duration >= 0
\* and the handler's value as result, and process() returns that id, status,
\* duration and result.
SuccessRecordedThenReturned ==
  [][\A p \in Procs :
       (pc[p] = "settled" /\ Val(outcome[p]).ok /\ pc'[p] # pc[p]) =>
         LET id == Val(jobId[p])
             v == Val(outcome[p]).value
             s == getStatus(jobHistory', id)
             r == Val(s.job)
         IN /\ ~s.threw
            /\ r.status = "completed"
            /\ IsSome(r.completedAt)
            /\ IsSome(r.duration) /\ Val(r.duration) >= 0
            /\ r.result = v
            /\ pc'[p] = "returned"
            /\ ret'[p] = Some([kind |-> "returned", jobId |-> id, status |-> "completed",
                               duration |-> Val(r.duration), result |-> v,
                               message |-> None])]_vars
\* A scoring.batch job that took a millisecond has returned.
SuccessRecordedThenReturnedWitness ==
  \E p \in Procs :
    /\ pc[p] = "returned"
    /\ Val(job[p]).type = "scoring.batch"
    /\ Val(ret[p]).duration > 0
    /\ StatusOf(jobHistory, Val(jobId[p])) = "completed"

\* C7: a write under an id that is not in a full history evicts exactly the
\* record inserted earliest; the others keep their order and the new record,
\* which is last, stays.
EvictsOldestOnly ==
  [][\A p \in Procs :
       (/\ Writes(p)
        /\ ~Has(jobHistory, Val(jobId'[p]))
        /\ Len(jobHistory) = MAX_HISTORY) =>
         /\ Ids(jobHistory') = Tail(Ids(jobHistory)) \o <<Val(jobId'[p])>>
         /\ \A i \in 2..Len(jobHistory) : jobHistory'[i - 1] = jobHistory[i]]_vars
\* The full history has lost its oldest record to the record of a new job.
EvictsOldestOnlyWitness ==
  /\ Len(jobHistory) = MAX_HISTORY
  /\ evicted = {JobId(1 - MAX_HISTORY, 1)}
  /\ \E p \in Procs : /\ IsSome(jobId[p])
                      /\ jobHistory[MAX_HISTORY].id = Val(jobId[p])
                      /\ Val(jobId[p])[1] >= 1

\* C8: a write under an id that is in the history evicts nothing and leaves
\* the number of records, the order of the ids and every other record as they
\* were.
OverwriteKeepsPlace ==
  [][\A p \in Procs :
       (Writes(p) /\ Has(jobHistory, Val(jobId'[p]))) =>
         /\ Ids(jobHistory') = Ids(jobHistory)
         /\ evicted' = evicted
         /\ \A i \in 1..Len(jobHistory) :
              jobHistory[i].id # Val(jobId'[p]) => jobHistory'[i] = jobHistory[i]]_vars
\* The id inserted earliest was updated to a terminal status and is still the
\* first of several.
OverwriteKeepsPlaceWitness ==
  \E p \in Procs :
    /\ pc[p] \in {"returned", "raised"}
    /\ Len(jobHistory) >= 2
    /\ OldestKey(jobHistory) = Val(jobId[p])
    /\ StatusOf(jobHistory, Val(jobId[p])) \in Terminal

\* C9: getStatus of an id that was evicted signals not-found, and the status
\* endpoint answers 404, in every later state.
EvictedStaysNotFound ==
  \A id \in evicted :
    /\ getStatus(jobHistory, id).threw
    /\ StatusEndpoint(jobHistory, id).code = 404

\* C10: a batch handler never raises, attempts every lead id whatever the
\* answers to the earlier ones, and returns processed = the number of lead
\* ids with one entry for each.
BatchIsolatesItems ==
  \A p \in Procs :
    (IsSome(job[p]) /\ Val(job[p]).type \in BatchTypes) =>
      LET leadIds == LeadIdsOf(Val(job[p]).payload)
          n == Len(leadIds)
      IN /\ pc[p] # "raised"
         /\ Len(results[p]) <= n
         /\ pc[p] = "awaiting" => Len(results[p]) < n
         /\ IsSome(outcome[p]) =>
              /\ Val(outcome[p]).ok
              /\ Val(Val(outcome[p]).value).processed = n
              /\ Len(Val(Val(outcome[p]).value).results) = n
              /\ \A i \in 1..n : Val(Val(outcome[p]).value).results[i].leadId = leadIds[i]
         /\ pc[p] = "returned" => Val(ret[p]).result = Val(outcome[p]).value
\* A batch whose first item failed and whose second succeeded has returned.
BatchIsolatesItemsWitness ==
  \E p \in Procs :
    /\ pc[p] = "returned"
    /\ Val(job[p]).type \in BatchTypes
    /\ Len(Val(Val(ret[p]).result).results) = 2
    /\ Val(Val(ret[p]).result).results[1].status = "failed"
    /\ Val(Val(ret[p]).result).results[2].status # "failed"

\* C11: the i-th entry of a batch result carries the i-th input lead id, and
\* its status is the handler's success label ('enriched' for enrichment.batch,
\* 'scored' for scoring.batch) exactly when the downstream call for that lead
\* succeeded, 'failed' with that call's error message exactly when it failed.
BatchAttributesByPosition ==
  \A p \in Procs :
    (IsSome(job[p]) /\ Val(job[p]).type \in BatchTypes) =>
      LET type == Val(job[p]).type
          leadIds == LeadIdsOf(Val(job[p]).payload)
          label == IF type = "enrichment.batch" THEN "enriched" ELSE "scored"
      IN /\ Len(calls[p]) = Len(results[p])
         /\ \A i \in 1..Len(results[p]) :
              LET e == results[p][i]
                  c == calls[p][i]
              IN /\ e.leadId = leadIds[i]
                 /\ c.leadId = Some(leadIds[i])
                 /\ (e.status = label) <=> c.answer.ok
                 /\ (e.status = "failed") <=> ~c.answer.ok
                 /\ ~c.answer.ok => e.error = c.answer.message
         /\ IsSome(outcome[p]) => Val(Val(outcome[p]).value).results = results[p]
         /\ pc[p] = "returned" => Val(Val(ret[p]).result).results = results[p]
\* An enrichment.batch job on L1, L2 whose call for L1 succeeded and whose call
\* for L2 failed has returned [L1 enriched, L2 failed].
BatchAttributesByPositionWitness ==
  \E p \in Procs :
    /\ pc[p] = "returned"
    /\ Val(job[p]).type = "enrichment.batch"
    /\ Len(calls[p]) = 2
    /\ calls[p][1].answer.ok /\ ~calls[p][2].answer.ok
    /\ LET rs == Val(Val(ret[p]).result).results
       IN /\ rs[1].leadId = "L1" /\ rs[1].status = "enriched"
          /\ rs[2].leadId = "L2" /\ rs[2].status = "failed"
          /\ rs[2].error = "Request failed with status code 500"

\* C12: getRecentJobs(limit) returns at most limit records of the history,
\* as many as the history has up to limit; they are the records with the
\* greatest startedAt, ordered by startedAt descending.
RecentLimits == {0, 1, 3}
RecentJobsNewestFirst ==
  \A limit \in RecentLimits :
    \A out \in getRecentJobs(jobHistory, limit) :
      LET n == Len(out)
      IN /\ n <= limit
         /\ n = limit \/ n = Len(jobHistory)
         /\ \A i \in 1..n : MapGet(jobHistory, out[i].id) = Some(out[i])
         /\ \A i, j \in 1..n : i # j => out[i].id # out[j].id
         /\ \A i \in 1..n : IsSome(out[i].startedAt)
         /\ \A i \in 1..(n - 1) : Val(out[i].startedAt) >= Val(out[i + 1].startedAt)
         /\ \A k \in 1..Len(jobHistory) :
              (n > 0 /\ \A i \in 1..n : out[i].id # jobHistory[k].id) =>
                /\ IsSome(jobHistory[k].startedAt)
                /\ Val(jobHistory[k].startedAt) <= Val(out[n].startedAt)

\* C13: the record a process() call writes carries the payload of its job,
\* in the 'processing' write and in the terminal write alike.
PayloadKept ==
  [][\A p \in Procs :
       Writes(p) =>
         LET g == MapGet(jobHistory', Val(jobId'[p]))
         IN g # None /\ Val(g).payload = Some(Val(job'[p]).payload)]_vars

\* C14: a 'completed' record has completedAt and result and neither failedAt
\* nor error, a 'failed' record has failedAt and error and neither completedAt
\* nor result, and a 'processing' record has none of the four; so no record
\* has both completedAt and failedAt, nor both result and error.
TerminalFieldsMatchStatus ==
  \A i \in 1..Len(jobHistory) :
    LET r == jobHistory[i]
    IN /\ r.status \in {"processing", "completed", "failed"}
       /\ ~(IsSome(r.completedAt) /\ IsSome(r.failedAt))
       /\ ~(IsSome(r.result) /\ IsSome(r.error))
       /\ r.status = "completed" =>
            /\ IsSome(r.completedAt) /\ IsSome(r.result)
            /\ r.failedAt = None /\ r.error = None
       /\ r.status = "failed" =>
            /\ IsSome(r.failedAt) /\ IsSome(r.error)
            /\ r.completedAt = None /\ r.result = None
       /\ r.status = "processing" =>
            /\ r.completedAt = None /\ r.failedAt = None
            /\ r.result = None /\ r.error = None
\* The history holds the 'processing' record of a call in flight, the 'failed'
\* record of a call that raised and 'completed' records.
TerminalFieldsMatchStatusWitness ==
  \E p, q \in Procs :
    /\ pc[p] = "awaiting" /\ Has(jobHistory, Val(jobId[p]))
    /\ StatusOf(jobHistory, Val(jobId[p])) = "processing"
    /\ pc[q] = "raised" /\ Has(jobHistory, Val(jobId[q]))
    /\ StatusOf(jobHistory, Val(jobId[q])) = "failed"
    /\ \E i \in 1..Len(jobHistory) : jobHistory[i].status = "completed"

\* C15: the id a process() call generates is not in the history, was not
\* evicted from it and is not the id of another call, so two calls never read
\* or write the same record.
GeneratedIdIsNew ==
  [][\A p \in Procs :
       (pc[p] = "idle" /\ pc'[p] # "idle") =>
         /\ ~Has(jobHistory, Val(jobId'[p]))
         /\ Val(jobId'[p]) \notin evicted
         /\ \A q \in Procs \ {p} : jobId[q] # jobId'[p]]_vars

\* C16: the terminal record a process() call writes carries a defined
\* startedAt, the time at which the call created its 'processing' record,
\* whatever other calls recorded in between.
StartedAtKept ==
  [][\A p \in Procs :
       (pc'[p] \in {"returned", "raised"} /\ pc'[p] # pc[p]) =>
         LET g == MapGet(jobHistory', Val(jobId'[p]))
         IN /\ g # None
            /\ IsSome(Val(g).startedAt)
            /\ Val(g).startedAt = startTime'[p]]_vars

\* C17: the terminal write of a process() call whose handler settled changes
\* only the entry of its own job: the history keeps its number of records and
\* every record of another id stays, as it was.
TerminalWriteTouchesOwnEntry ==
  [][\A p \in Procs :
       (pc[p] = "settled" /\ pc'[p] # pc[p]) =>
         /\ Len(jobHistory') = Len(jobHistory)
         /\ \A i \in 1..Len(jobHistory) :
              jobHistory[i].id # Val(jobId[p]) =>
                MapGet(jobHistory', jobHistory[i].id) = Some(jobHistory[i])]_vars

\* C18: every 'processing' record in the history is the record of a process()
\* call that has neither returned nor raised yet; a call that has returned or
\* raised has left no 'processing' record behind.
ProcessingMeansInFlight ==
  /\ \A i \in 1..Len(jobHistory) :
       jobHistory[i].status = "processing" =>
         \E p \in Procs : /\ pc[p] \in {"awaiting", "settled"}
                          /\ jobId[p] = Some(jobHistory[i].id)
  /\ \A p \in Procs :
       (pc[p] \in {"returned", "raised"} /\ Has(jobHistory, Val(jobId[p]))) =>
         \/ StatusOf(jobHistory, Val(jobId[p])) \in Terminal
         \/ \E q \in Procs \ {p} : /\ pc[q] \in {"awaiting", "settled"}
                                   /\ jobId[q] = jobId[p]
\* One call has returned and its record is 'completed' while the record of
\* another call, still awaiting its downstream answer, is 'processing'.
ProcessingMeansInFlightWitness ==
  \E p, q \in Procs :
    /\ pc[p] = "returned" /\ Has(jobHistory, Val(jobId[p]))
    /\ StatusOf(jobHistory, Val(jobId[p])) = "completed"
    /\ pc[q] = "awaiting" /\ Has(jobHistory, Val(jobId[q]))
    /\ StatusOf(jobHistory, Val(jobId[q])) = "processing"

\* C19, as claimed for a downstream call that never answers: while a call
\* awaits its downstream answer, the record of its job is in the history
\* with status 'processing'.
AwaitingShowsProcessing ==
  \A p \in Procs :
    pc[p] = "awaiting" =>
      /\ Has(jobHistory, Val(jobId[p]))
      /\ StatusOf(jobHistory, Val(jobId[p])) = "processing"

\* C19: when every downstream call is answered, every process() call in
\* flight returns or raises in the end, with the terminal record of its id
\* written; a batch job has settled after exactly one downstream call per
\* input lead id, issued one at a time in input order; and a call leaves its
\* await only by an answer to its downstream call (there is no timeout), not
\* writing to the history while it waits.
InFlight(p) == pc[p] \in {"awaiting", "settled"}
Done(p) ==
  /\ pc[p] \in {"returned", "raised"}
  /\ Has(jobHistory, Val(jobId[p]))
  /\ StatusOf(jobHistory, Val(jobId[p])) = (IF pc[p] = "returned" THEN "completed" ELSE "failed")
OneCallPerLead ==
  \A p \in Procs :
    (IsSome(job[p]) /\ Val(job[p]).type \in BatchTypes) =>
      LET leadIds == LeadIdsOf(Val(job[p]).payload)
      IN /\ Len(calls[p]) <= Len(leadIds)
         /\ \A i \in 1..Len(calls[p]) : calls[p][i].leadId = Some(leadIds[i])
         /\ pc[p] = "awaiting" => Len(calls[p]) < Len(leadIds)
         /\ pc[p] \in {"settled", "returned"} => Len(calls[p]) = Len(leadIds)
LeavesAwaitByAnswer ==
  \A p \in Procs :
    pc[p] = "awaiting" =>
      /\ pc'[p] # "awaiting" => (pc'[p] = "settled" /\ Len(calls'[p]) = Len(calls[p]) + 1)
      /\ Len(calls'[p]) \in {Len(calls[p]), Len(calls[p]) + 1}
      /\ (\A q \in Procs \ {p} : ~Writes(q)) => jobHistory' = jobHistory
EveryCallSettles ==
  /\ \A p \in Procs : InFlight(p) ~> Done(p)
  /\ []OneCallPerLead
  /\ [][LeavesAwaitByAnswer]_vars
\* A batch job on two lead ids has returned after two downstream calls, L1
\* then L2, and its record is 'completed'.
EveryCallSettlesWitness ==
  \E p \in Procs :
    /\ Done(p) /\ pc[p] = "returned"
    /\ Val(job[p]).type \in BatchTypes
    /\ Len(calls[p]) = 2
    /\ calls[p][1].leadId = Some("L1") /\ calls[p][2].leadId = Some("L2")

\* C20: the push endpoint answers 200 only in the step in which process() of
\* the message returned, the 'completed' record written; it answers 500 when
\* process() raises; a redelivery runs as a job with an id that is new, and
\* leaves the 'failed' record of the earlier delivery as it was; and a message
\* without data is answered 400 with no job recorded.
PushAcksAfterSuccess ==
  [][\A p \in Procs :
       /\ (response'[p] = 200 /\ response[p] # 200) =>
            /\ pc[p] = "settled" /\ pc'[p] = "returned"
            /\ Has(jobHistory', Val(jobId'[p]))
            /\ StatusOf(jobHistory', Val(jobId'[p])) = "completed"
       /\ (pc'[p] = "raised" /\ pc[p] # "raised") => response'[p] = 500
       /\ (pc[p] = "idle" /\ pc'[p] # "idle" /\ pending[p] # None) =>
            LET failed == Val(pending[p]).failed
            IN /\ Val(jobId'[p]) # failed
               /\ ~Has(jobHistory, Val(jobId'[p]))
               /\ MapGet(jobHistory', failed) = MapGet(jobHistory, failed)
       /\ (response'[p] = 400 /\ response[p] # 400) =>
            /\ jobHistory' = jobHistory
            /\ dispatched' = dispatched
            /\ pc' = pc]_vars

====
